---- MODULE Spec2Model ----
(***************************************************************************)
(* Model of the playback engine of sample-duck (src/src/audio_player.rs).  *)
(*                                                                         *)
(* Two threads: the control thread (the UI thread, which owns the          *)
(* AudioPlayer and calls load / play / pause / stop / toggle_play_state /  *)
(* set_loop / seek_to_position / seek_to_position_percentage) and the      *)
(* render thread, on which cpal invokes AudioPlayer::audio_callback.       *)
(* Every access to a shared field (the samples mutex, the state mutex, the *)
(* loop mutex, the atomic play_pos) is one step of its thread, so that     *)
(* every interleaving of the two threads is a behaviour of the model.      *)
(*                                                                         *)
(* A sample (an f32 in the code) is the pair <<m, k>> of its value         *)
(* m / 2^k, with m odd (<<0, 0>> for 0.0).  Conversions, quotients and     *)
(* sums round as f32 arithmetic does (to nearest, ties to even); values    *)
(* below the normal range of f32 (2^-126) do not arise.                    *)
(***************************************************************************)
EXTENDS Integers, Sequences, FiniteSets, TLC

\* ------------------------------------------------------------------ bounds

\* Largest number of frames the host asks for in one callback (data.len() / out_channels).
MaxOutFrames == 2

\* Largest index passed to seek_to_position.
MaxSeek == 5

\* Largest output channel count of the device (out_channels is chosen in 1..MaxOutChannels).
MaxOutChannels == 2

\* Largest output channel count of the device in LibrarySpec.
MaxLibraryChannels == 3

\* ------------------------------------------------------- program constants

\* compute_peaks: let target_points = 2000;
target_points == 2000

\* i16::MAX, the divisor of the S16 branch of process_audio_buffer.
I16Max == 32767

\* 8_388_607.0 and 8_388_608.0, the two divisors of the S24 branch.
S24PosDiv == 8388607

S24NegDiv == 8388608

\* The offset and divisor of the U8 branch: (s as f32 - 128.0) / 128.0.
U8Bias == 128

\* i32::MAX, the greatest S32 sample.
I32Max == 2147483647

\* `i32::MAX as f32`, the divisor of the S32 branch, is 2^31 (2147483647 is
\* not an f32 and rounds up): its binary logarithm.
I32MaxAsF32Log2 == 31

\* f32::MANTISSA_DIGITS: an f32 holds 24 significant binary digits.
F32Digits == 24

\* The width of an i32 and of the integers of the checker.
I32Bits == 32

\* --------------------------------------------------------------- samples

\* enum PlaybackState
PlaybackState == {"Stopped", "Playing", "Paused"}

Min2(a, b) == IF a <= b THEN a ELSE b

Max2(a, b) == IF a >= b THEN a ELSE b

RECURSIVE Pow2(_)
Pow2(k) == IF k = 0 THEN 1 ELSE 2 * Pow2(k - 1)

\* |s| for s >= 0 and |s| - 1 for s < 0, which exists for i32::MIN too.
Mag(s) == IF s < 0 THEN -(s + 1) ELSE s

\* The binary exponent e of the f32 nearest to the integer s: the least e
\* for which s / 2^e has at most F32Digits digits.
F32Exp(s) ==
    CHOOSE e \in 0..(I32Bits - F32Digits) :
        /\ Mag(s) \div Pow2(e) < Pow2(F32Digits)
        /\ \A e2 \in 0..(e - 1) : Mag(s) \div Pow2(e2) >= Pow2(F32Digits)

\* `s as f32` for an i32 s, as <<m, e>> with value m * 2^e: round to nearest,
\* ties to the even mantissa.
IntAsF32(s) ==
    LET e == F32Exp(s)
        q == Pow2(e)
        base == s \div q
        lo == s % q
        up == 2 * lo > q \/ (2 * lo = q /\ base % 2 = 1)
    IN  <<IF up THEN base + 1 ELSE base, e>>

RECURSIVE BitLen(_)
BitLen(x) == IF x = 0 THEN 0 ELSE 1 + BitLen(x \div 2)

Abs(x) == IF x < 0 THEN -x ELSE x

\* The f32 value m / 2^k as the pair <<m, k>> with m odd, and <<0, 0>> for 0.
RECURSIVE F32(_, _)
F32(m, k) ==
    IF m = 0 THEN <<0, 0>>
    ELSE IF m % 2 = 0 THEN F32(m \div 2, k - 1)
    ELSE <<m, k>>

\* 0.0 and 1.0
F32Zero == <<0, 0>>

F32One == <<1, 0>>

\* The digits of a quotient: q and the remainder r are extended by binary
\* digits after the point (k counts them) until the division is exact or q
\* has more than F32Digits digits.
RECURSIVE QuotDigits(_, _, _, _)
QuotDigits(q, r, d, k) ==
    IF r = 0 \/ q >= Pow2(F32Digits) THEN <<q, r, k>>
    ELSE QuotDigits(2 * q + (IF 2 * r >= d THEN 1 ELSE 0), (2 * r) % d, d,
                    k + 1)

\* q >= 0 cut to its digits above the lowest t, as <<m, t>> with value
\* m * 2^t: rounded to nearest, ties to even; sticky says that digits below
\* q were not zero.
RoundAt(q, t, sticky) ==
    LET mant == q \div Pow2(t)
        rem == q % Pow2(t)
    IN  IF t > 0 /\ (2 * rem > Pow2(t)
                     \/ (2 * rem = Pow2(t) /\ (sticky \/ mant % 2 = 1)))
        THEN <<mant + 1, t>>
        ELSE <<mant, t>>

\* q >= 0 rounded to F32Digits digits.
RoundDigits(q, sticky) == RoundAt(q, Max2(BitLen(q) - F32Digits, 0), sticky)

\* The f32 of sign neg and magnitude m[1] * 2^m[2] / 2^k.
F32Signed(neg, m, k) == F32(IF neg THEN -m[1] ELSE m[1], k - m[2])

\* The f32 nearest to the quotient whose digits are x.
F32Rounded(neg, x) == F32Signed(neg, RoundDigits(x[1], x[2] # 0), x[3])

\* n as f32 / d as f32 for integers that are f32 values (0 < d <= 2^30):
\* the f32 nearest to n / d.
F32Quot(n, d) ==
    F32Rounded(n < 0, QuotDigits(Abs(n) \div d, Abs(n) % d, d, 0))

\* The number of the binary digits of |v| before the point (negative when
\* the first digits after it are zero).
Top(v) == BitLen(Abs(v[1])) - v[2]

\* The mantissa of v with exactly F32Digits digits.
FullMantissa(v) == Abs(v[1]) * Pow2(F32Digits - BitLen(Abs(v[1])))

\* |a| < |b| for two f32 values other than 0.
MagLess(a, b) ==
    \/ Top(a) < Top(b)
    \/ Top(a) = Top(b) /\ FullMantissa(a) < FullMantissa(b)

\* The extra digits the addition keeps below the mantissa of its greater
\* operand.
GuardDigits == 6

\* a > 0 without its lowest t digits (with -t zeros appended for t <= 0);
\* digits that are dropped and were not all zero are kept as one sticky
\* digit in the lowest place.
Jam(a, t) ==
    IF t <= 0 THEN a * Pow2(-t)
    ELSE IF t >= I32Bits - 1 THEN 1
    ELSE IF a % Pow2(t) # 0 /\ (a \div Pow2(t)) % 2 = 0
         THEN (a \div Pow2(t)) + 1
         ELSE a \div Pow2(t)

Signed(neg, v) == IF neg THEN -v ELSE v

\* The f32 nearest to S / 2^K.
F32Sum(S, K) == F32Signed(S < 0, RoundDigits(Abs(S), FALSE), K)

\* x + y in f32 for |x| >= |y| > 0, both written over 2^K.
AddAt(x, y, K) ==
    F32Sum(Signed(x[1] < 0, FullMantissa(x) * Pow2(GuardDigits))
               + Signed(y[1] < 0, Jam(Abs(y[1]), y[2] - K)),
           K)

\* x + y in f32 for |x| >= |y| > 0: both are written over 2^K, where K
\* leaves GuardDigits digits below the mantissa of x; digits of y below
\* that are kept as one sticky digit; the sum is rounded to F32Digits digits.
AddOrdered(x, y) ==
    AddAt(x, y, x[2] + (F32Digits - BitLen(Abs(x[1]))) + GuardDigits)

\* a + b in f32 (round to nearest, ties to even).
F32Add(a, b) ==
    IF a[1] = 0 THEN b
    ELSE IF b[1] = 0 THEN a
    ELSE IF MagLess(a, b) THEN AddOrdered(b, a)
    ELSE AddOrdered(a, b)

\* a < b for two f32 values (partial_cmp == Less).
RatLess(a, b) ==
    IF a[2] = b[2] THEN a[1] < b[1]
    ELSE IF a[1] <= 0 /\ b[1] >= 0 THEN a[1] < 0 \/ b[1] > 0
    ELSE IF a[1] >= 0 /\ b[1] <= 0 THEN FALSE
    ELSE IF a[1] > 0 THEN MagLess(a, b)
    ELSE MagLess(b, a)

\* v * 0.5, which is exact.
Half(v) == F32(v[1], v[2] + 1)

\* (left + right) * 0.5 of convert_buffer's (2, 1) branch: the f32 sum,
\* halved.
MixHalf(l, r) == Half(F32Add(l, r))

\* v / 2^e for the f32 v = <<m, e2>> of value m * 2^e2, which is exact.
OverPow2(v, e) == F32(v[1], e - v[2])

\* The sample encodings of AudioBufferRef that process_audio_buffer converts.
SupportedEncodings == {"F32", "F64", "S16", "S32", "S24", "U8"}

\* One decoded sample converted to f32 by the branch of its encoding.
\* A file gives an F32 or F64 sample as the ratio <<n, d>> of its value; the
\* F32 sample is that f32, the F64 sample is rounded to f32 (`s as f32`,
\* line 300).  Integer samples are converted to f32 and divided in f32 by
\* the divisor of their branch; S16, S24 and U8 samples are f32 values, and
\* an S32 sample is rounded to f32 before it is divided by 2^31 (line 328).
Normalize(enc, s) ==
    CASE enc = "F32" -> F32Quot(s[1], s[2])
      [] enc = "F64" -> F32Quot(s[1], s[2])
      [] enc = "S16" -> F32Quot(s, I16Max)
      [] enc = "S32" -> OverPow2(IntAsF32(s), I32MaxAsF32Log2)
      [] enc = "S24" ->
            IF s >= 0 THEN F32Quot(s, S24PosDiv) ELSE F32Quot(s, S24NegDiv)
      [] enc = "U8"  -> F32Quot(s - U8Bias, U8Bias)

NormalizeChan(enc, ch) == [i \in 1..Len(ch) |-> Normalize(enc, ch[i])]

\* ch1.get(i).copied().unwrap_or(0.0)
GetOrZero(ch, i) == IF i <= Len(ch) THEN ch[i] ELSE F32Zero

\* The concatenation of the sequences of ss, in order (halved at each level so
\* that the depth of the evaluation stays logarithmic in Len(ss)).
RECURSIVE Flatten(_)
Flatten(ss) ==
    IF ss = <<>> THEN <<>>
    ELSE IF Len(ss) = 1 THEN ss[1]
    ELSE LET h == Len(ss) \div 2
         IN  Flatten(SubSeq(ss, 1, h)) \o Flatten(SubSeq(ss, h + 1, Len(ss)))

\* n copies of x
Repeat(x, n) == [i \in 1..n |-> x]

\* The convert_buffer whose (2, 1) arm drops the right channel instead of
\* mixing it in.
convert_buffer_left_only(ch0, ch1, in_channels, out_ch) ==
    CASE in_channels = 1 /\ out_ch = 1 -> ch0
      [] in_channels = 1 /\ out_ch = 2 ->
            Flatten([i \in 1..Len(ch0) |-> <<ch0[i], ch0[i]>>])
      [] in_channels = 2 /\ out_ch = 1 -> ch0
      [] in_channels = 2 /\ out_ch = 2 ->
            Flatten([i \in 1..Len(ch0) |-> <<ch0[i], GetOrZero(ch1, i)>>])
      [] OTHER ->
            Flatten([i \in 1..Len(ch0) |-> Repeat(ch0[i], out_ch)])

\* The convert_buffer without the (2, 2) arm: stereo to stereo takes the
\* fallback and writes the left channel to both outputs.
convert_buffer_no_stereo_arm(ch0, ch1, in_channels, out_ch) ==
    CASE in_channels = 1 /\ out_ch = 1 -> ch0
      [] in_channels = 1 /\ out_ch = 2 ->
            Flatten([i \in 1..Len(ch0) |-> <<ch0[i], ch0[i]>>])
      [] in_channels = 2 /\ out_ch = 1 ->
            [i \in 1..Len(ch0) |-> MixHalf(ch0[i], GetOrZero(ch1, i))]
      [] OTHER ->
            Flatten([i \in 1..Len(ch0) |-> Repeat(ch0[i], out_ch)])

\* The convert_buffer whose fallback branch writes one copy of the first
\* channel per input channel instead of one per output channel.
convert_buffer_per_input(ch0, ch1, in_channels, out_ch) ==
    CASE in_channels = 1 /\ out_ch = 1 -> ch0
      [] in_channels = 1 /\ out_ch = 2 ->
            Flatten([i \in 1..Len(ch0) |-> <<ch0[i], ch0[i]>>])
      [] in_channels = 2 /\ out_ch = 1 ->
            [i \in 1..Len(ch0) |-> MixHalf(ch0[i], GetOrZero(ch1, i))]
      [] in_channels = 2 /\ out_ch = 2 ->
            Flatten([i \in 1..Len(ch0) |-> <<ch0[i], GetOrZero(ch1, i)>>])
      [] OTHER ->
            Flatten([i \in 1..Len(ch0) |-> Repeat(ch0[i], in_channels)])

\* AudioPlayer::convert_buffer: the elements appended to output for one packet.
convert_buffer(ch0, ch1, in_channels, out_ch) ==
    CASE in_channels = 1 /\ out_ch = 1 -> ch0
      [] in_channels = 1 /\ out_ch = 2 ->
            Flatten([i \in 1..Len(ch0) |-> <<ch0[i], ch0[i]>>])
      [] in_channels = 2 /\ out_ch = 1 ->
            [i \in 1..Len(ch0) |-> MixHalf(ch0[i], GetOrZero(ch1, i))]
      [] in_channels = 2 /\ out_ch = 2 ->
            Flatten([i \in 1..Len(ch0) |-> <<ch0[i], GetOrZero(ch1, i)>>])
      [] OTHER ->
            Flatten([i \in 1..Len(ch0) |-> Repeat(ch0[i], out_ch)])

\* AudioPlayer::process_audio_buffer on one decoded packet: the elements it
\* appends, or "UnsupportedFormat" for an encoding without a branch.
process_audio_buffer(pkt, out_ch) ==
    IF pkt.enc \in SupportedEncodings
    THEN [err |-> "none",
          out |-> convert_buffer(NormalizeChan(pkt.enc, pkt.ch0),
                                 IF pkt.channels > 1
                                 THEN NormalizeChan(pkt.enc, pkt.ch1) ELSE <<>>,
                                 pkt.channels, out_ch)]
    ELSE [err |-> "UnsupportedFormat", out |-> <<>>]

\* The decode loop of load (lines 234-266) over the packets of the stream:
\* `while let Ok(packet) = format.next_packet()` ends at the first packet that
\* cannot be read, a packet that does not decode is a DecodingError, and an
\* empty result is a DecodingError.
RECURSIVE DecodeLoop(_, _, _)
DecodeLoop(pkts, acc, out_ch) ==
    IF pkts = <<>> \/ ~Head(pkts).readable
    THEN IF acc = <<>> THEN [err |-> "DecodingError", out |-> <<>>]
         ELSE [err |-> "none", out |-> acc]
    ELSE IF ~Head(pkts).decodable
    THEN [err |-> "DecodingError", out |-> <<>>]
    ELSE LET r == process_audio_buffer(Head(pkts), out_ch)
         IN  IF r.err # "none" THEN r
             ELSE DecodeLoop(Tail(pkts), acc \o r.out, out_ch)

\* --------------------------------------------------------------- peaks

\* chunk.iter().min_by(partial_cmp): the first of several equal minima.
RECURSIVE MinBy(_, _)
MinBy(cur, rest) ==
    IF rest = <<>> THEN cur
    ELSE MinBy(IF RatLess(Head(rest), cur) THEN Head(rest) ELSE cur, Tail(rest))

\* chunk.iter().max_by(partial_cmp): the last of several equal maxima.
RECURSIVE MaxBy(_, _)
MaxBy(cur, rest) ==
    IF rest = <<>> THEN cur
    ELSE MaxBy(IF RatLess(Head(rest), cur) THEN cur ELSE Head(rest), Tail(rest))

\* AudioPlayer::compute_peaks
compute_peaks(s) ==
    LET samples_per_point == Max2(Len(s), target_points) \div target_points
        nchunks == (Len(s) + samples_per_point - 1) \div samples_per_point
        chunk(k) == SubSeq(s, (k - 1) * samples_per_point + 1,
                           Min2(k * samples_per_point, Len(s)))
    IN  [k \in 1..nchunks |->
            <<MinBy(Head(chunk(k)), Tail(chunk(k))),
              MaxBy(Head(chunk(k)), Tail(chunk(k)))>>]

\* --------------------------------------------------------------- files

\* A decoded packet (an AudioBufferRef): its sample encoding, its channel count
\* and the raw samples of its planes. chan(0) and chan(1) are the only planes
\* process_audio_buffer reads; more holds the planes after them.
Pkt(enc, channels, ch0, ch1) ==
    [readable |-> TRUE, decodable |-> TRUE, enc |-> enc, channels |-> channels,
     ch0 |-> ch0, ch1 |-> ch1, more |-> <<>>]

\* A packet of 2 + Len(more) channels.
PktN(enc, ch0, ch1, more) ==
    [Pkt(enc, 2 + Len(more), ch0, ch1) EXCEPT !.more = more]

\* A packet that format.next_packet() fails to read (an I/O error in mid stream).
UnreadablePkt == [Pkt("U8", 2, <<>>, <<>>) EXCEPT !.readable = FALSE]

\* A packet that decoder.decode() rejects.
CorruptPkt == [Pkt("U8", 2, <<>>, <<>>) EXCEPT !.decodable = FALSE]

\* The raw samples of a mono plane one sample longer than target_points.
LongPlane == [i \in 1..(target_points + 1) |-> <<(i % 5) - 2, 4>>]

\* The least and the greatest raw sample of the integer encodings.
U8Min == 0
U8Max == 255
I16Min == -32768
I24Min == -8388608
I24Max == 8388607
I32Min == -2147483647 - 1

File(open, probe, track, decoder, packets) ==
    [open |-> open, probe |-> probe, track |-> track, decoder |-> decoder,
     packets |-> packets]

\* The files load is called with: what each step of load finds in the file.
Files ==
    [stereo_u8  |-> File(TRUE, TRUE, TRUE, TRUE,
                         <<Pkt("U8", 2, <<255>>, <<0>>), Pkt("U8", 2, <<192>>, <<64>>)>>),
     mono_s16   |-> File(TRUE, TRUE, TRUE, TRUE, <<Pkt("S16", 1, <<-32768>>, <<>>)>>),
     missing    |-> File(FALSE, TRUE, TRUE, TRUE, <<>>),
     not_audio  |-> File(TRUE, FALSE, TRUE, TRUE, <<>>),
     no_track   |-> File(TRUE, TRUE, FALSE, TRUE, <<>>),
     no_codec   |-> File(TRUE, TRUE, TRUE, FALSE, <<>>),
     corrupt    |-> File(TRUE, TRUE, TRUE, TRUE,
                         <<Pkt("U8", 2, <<255>>, <<0>>), CorruptPkt>>),
     truncated  |-> File(TRUE, TRUE, TRUE, TRUE,
                         <<Pkt("U8", 2, <<255>>, <<0>>), UnreadablePkt,
                           Pkt("U8", 2, <<192>>, <<64>>)>>),
     s8_samples |-> File(TRUE, TRUE, TRUE, TRUE, <<Pkt("S8", 1, <<5>>, <<>>)>>),
     empty      |-> File(TRUE, TRUE, TRUE, TRUE, <<>>),
     stereo_3fr |-> File(TRUE, TRUE, TRUE, TRUE,
                         <<Pkt("U8", 2, <<200, 100, 128>>, <<56, 156, 130>>)>>),
     stereo_f64 |-> File(TRUE, TRUE, TRUE, TRUE,
                         <<Pkt("F64", 2, <<<<1, 2>>, <<-1, 4>>>>, <<<<3, 4>>, <<0, 1>>>>)>>),
     mono_f32   |-> File(TRUE, TRUE, TRUE, TRUE,
                         <<Pkt("F32", 1, <<<<1, 4>>>>, <<>>),
                           Pkt("F32", 1, <<<<-3, 4>>, <<1, 2>>>>, <<>>)>>),
     mono_long  |-> File(TRUE, TRUE, TRUE, TRUE, <<Pkt("F32", 1, LongPlane, <<>>)>>),
     three_ch   |-> File(TRUE, TRUE, TRUE, TRUE,
                         <<PktN("U8", <<255, 64>>, <<0, 192>>, <<<<128, 96>>>>)>>),
     no_frames  |-> File(TRUE, TRUE, TRUE, TRUE, <<Pkt("U8", 2, <<>>, <<>>)>>),
     range_u8   |-> File(TRUE, TRUE, TRUE, TRUE, <<Pkt("U8", 1, <<U8Min, U8Max>>, <<>>)>>),
     range_s16  |-> File(TRUE, TRUE, TRUE, TRUE, <<Pkt("S16", 1, <<I16Min, I16Max>>, <<>>)>>),
     range_s24  |-> File(TRUE, TRUE, TRUE, TRUE, <<Pkt("S24", 1, <<I24Min, I24Max>>, <<>>)>>),
     range_s32  |-> File(TRUE, TRUE, TRUE, TRUE, <<Pkt("S32", 1, <<I32Min, I32Max>>, <<>>)>>),
     stereo_s16 |-> File(TRUE, TRUE, TRUE, TRUE,
                         <<Pkt("S16", 2, <<I16Min, 16384>>, <<I16Max, -12345>>)>>),
     stereo_s24 |-> File(TRUE, TRUE, TRUE, TRUE,
                         <<Pkt("S24", 2, <<5, I24Max>>, <<-5, I24Min>>)>>),
     stereo_s32 |-> File(TRUE, TRUE, TRUE, TRUE,
                         <<Pkt("S32", 2, <<I32Max, 16777217>>, <<1, 16777219>>)>>)]

\* The files the control thread loads while the render thread runs.
Paths == {"stereo_u8", "mono_s16", "missing", "not_audio", "no_track", "no_codec",
          "corrupt", "truncated", "s8_samples", "empty"}

\* Every file of the library.
LibraryPaths == DOMAIN Files

\* The error load returns before it touches the player (lines 196-229), or "none".
OpenError(f) ==
    CASE ~f.open    -> "IoError"
      [] ~f.probe   -> "SymphoniaError"
      [] ~f.track   -> "UnsupportedFormat"
      [] ~f.decoder -> "SymphoniaError"
      [] OTHER      -> "none"

\* Whether load(path) returns Err on a device with out_ch output channels.
LoadFails(path, out_ch) ==
    \/ OpenError(Files[path]) # "none"
    \/ DecodeLoop(Files[path].packets, <<>>, out_ch).err # "none"

\* The fractions seek_to_position_percentage is called with, in percent.
Percents == {0, 50, 100}

\* One hundred percent.
Hundred == 100

\* The binary exponent j of the f32 nearest to pct / 100 (pct >= 1): the
\* least j for which pct * 2^j / 100 has F32Digits digits.
RECURSIVE PercentExp(_, _)
PercentExp(pct, j) ==
    IF pct * Pow2(j) >= Hundred * Pow2(F32Digits - 1) THEN j
    ELSE PercentExp(pct, j + 1)

\* The f32 argument sample_pos_percent for pct percent (pct >= 1): the f32
\* nearest to pct / 100, as <<m, j>> with value m / 2^j.
PercentAsF32(pct) ==
    LET j == PercentExp(pct, 0)
        num == pct * Pow2(j)
        base == num \div Hundred
        lo == num % Hundred
        up == 2 * lo > Hundred \/ (2 * lo = Hundred /\ base % 2 = 1)
    IN  <<IF up THEN base + 1 ELSE base, j>>

\* The f32 product of two f32 mantissas a, b in 0..2^24, as <<m, t>> with
\* value m * 2^t: the exact product, built from halves of F32Digits / 2
\* digits as hi * 2^24 + lo, rounded to F32Digits digits (to nearest, ties
\* to even).
MulF32(a, b) ==
    LET h == Pow2(F32Digits \div 2)
        w == Pow2(F32Digits)
        mid == (a \div h) * (b % h) + (a % h) * (b \div h)
        low == (mid % h) * h + (a % h) * (b % h)
        lo == low % w
        hi == (a \div h) * (b \div h) + mid \div h + low \div w
        t == BitLen(hi)
        mant == IF t <= F32Digits
                THEN hi * Pow2(F32Digits - t) + lo \div Pow2(t)
                ELSE hi \div 2
        rem == IF t <= F32Digits THEN lo % Pow2(t) ELSE (hi % 2) * w + lo
        half == IF t = 0 THEN 1 ELSE Pow2(t - 1)
        up == t > 0 /\ (rem > half \/ (rem = half /\ mant % 2 = 1))
    IN  <<IF up THEN mant + 1 ELSE mant, t>>

\* (self.samples_count as f32 * sample_pos_percent) as usize, in f32
\* arithmetic: samples_count is rounded to f32, the product is rounded to
\* f32, and the cast truncates it (a negative product saturates to 0).
PercentToIndex(count, pct) ==
    IF pct <= 0 \/ count = 0 THEN 0
    ELSE LET c == IntAsF32(count)
             p == PercentAsF32(pct)
             prod == MulF32(c[1], p[1])
             shift == prod[2] + c[2] - p[2]
         IN  IF shift >= 0 THEN prod[1] * Pow2(shift)
             ELSE IF -shift >= I32MaxAsF32Log2 THEN 0
             ELSE prod[1] \div Pow2(-shift)

\* --------------------------------------------------------------- state

VARIABLES
    out_channels,   \* AudioPlayer.out_channels, fixed by the device
    samples,        \* AudioPlayer.samples (behind the samples mutex)
    samples_count,  \* AudioPlayer.samples_count
    peak_samples,   \* AudioPlayer.peak_samples
    play_pos,       \* AudioPlayer.play_pos (AtomicUsize)
    state,          \* AudioPlayer.state (behind the state mutex)
    loop_enabled,   \* AudioPlayer.loop_enabled (behind the loop mutex)
    samplesLock,    \* holder of the samples mutex: "free", "cb" or "ctl"
    ctlPc,          \* control thread: "idle" between calls, else the next step
    ctlOp,          \* control thread: the call that runs or returned last
    tgState,        \* toggle_play_state: the state get_state() returned
    skTotal,        \* seek_to_position: total_samples
    skPos,          \* seek_to_position: sample_pos
    ldPath,         \* load: path
    ldNew,          \* load: new_samples
    ldResult,       \* load: "none" while it runs, then "Ok" or the error
    cbPc,           \* render thread: "idle" between callbacks, else the next step
    cbFrames,       \* audio_callback: data.len() / out_channels
    cbIdx,          \* audio_callback: frames of data the loop has filled
    cbState,        \* audio_callback: current_state
    cbLoop,         \* audio_callback: is_looping
    cbPos,          \* audio_callback: pos
    data            \* audio_callback: the output slice

shared == <<out_channels, samples, samples_count, peak_samples, play_pos, state,
            loop_enabled, samplesLock>>

ctlVars == <<ctlPc, ctlOp, tgState, skTotal, skPos, ldPath, ldNew, ldResult>>

cbVars == <<cbPc, cbFrames, cbIdx, cbState, cbLoop, cbPos, data>>

vars == <<shared, ctlVars, cbVars>>

\* AudioPlayer::new (lines 96-148): an empty buffer, position 0, Stopped, no loop.
InitPlayer ==
    /\ samples = <<>>
    /\ samples_count = 0
    /\ peak_samples = <<>>
    /\ play_pos = 0
    /\ state = "Stopped"
    /\ loop_enabled = FALSE
    /\ samplesLock = "free"
    /\ ctlPc = "idle"
    /\ ctlOp = "new"
    /\ tgState = "Stopped"
    /\ skTotal = 0
    /\ skPos = 0
    /\ ldPath = "none"
    /\ ldNew = <<>>
    /\ ldResult = "none"
    /\ cbPc = "idle"
    /\ cbFrames = 0
    /\ cbIdx = 0
    /\ cbState = "Stopped"
    /\ cbLoop = FALSE
    /\ cbPos = 0
    /\ data = <<>>

\* The player on a device of 1..MaxOutChannels output channels.
Init == out_channels \in 1..MaxOutChannels /\ InitPlayer

\* The player on a device of 1..MaxLibraryChannels output channels.
LibraryInit == out_channels \in 1..MaxLibraryChannels /\ InitPlayer

\* The locals of the previous control call are dead when the next call starts.
NoToggleLocals == tgState' = "Stopped"

NoSeekLocals == skTotal' = 0 /\ skPos' = 0

NoLoadLocals == ldPath' = "none" /\ ldNew' = <<>> /\ ldResult' = "none"

\* ------------------------------------------------- control thread: transport

\* AudioPlayer::play: one write under the state mutex.
Play ==
    /\ ctlPc = "idle"
    /\ state' = "Playing"
    /\ ctlOp' = "play"
    /\ NoToggleLocals /\ NoSeekLocals /\ NoLoadLocals
    /\ UNCHANGED <<out_channels, samples, samples_count, peak_samples, play_pos,
                   loop_enabled, samplesLock, ctlPc, cbVars>>

\* AudioPlayer::pause: one write under the state mutex.
Pause ==
    /\ ctlPc = "idle"
    /\ state' = "Paused"
    /\ ctlOp' = "pause"
    /\ NoToggleLocals /\ NoSeekLocals /\ NoLoadLocals
    /\ UNCHANGED <<out_channels, samples, samples_count, peak_samples, play_pos,
                   loop_enabled, samplesLock, ctlPc, cbVars>>

\* AudioPlayer::stop, line 478: *self.state.lock().unwrap() = Stopped.
Stop ==
    /\ ctlPc = "idle"
    /\ state' = "Stopped"
    /\ ctlOp' = "stop"
    /\ ctlPc' = "stop_pos"
    /\ NoToggleLocals /\ NoSeekLocals /\ NoLoadLocals
    /\ UNCHANGED <<out_channels, samples, samples_count, peak_samples, play_pos,
                   loop_enabled, samplesLock, cbVars>>

\* AudioPlayer::stop, line 479: self.play_pos.store(0), then stop returns to
\* its caller (the control thread, toggle_play_state or load).
StopStorePos ==
    /\ ctlPc = "stop_pos"
    /\ play_pos' = 0
    /\ ctlPc' = IF ctlOp = "load" THEN "load_decode" ELSE "idle"
    /\ UNCHANGED <<out_channels, samples, samples_count, peak_samples, state,
                   loop_enabled, samplesLock, ctlOp, tgState, skTotal, skPos,
                   ldPath, ldNew, ldResult, cbVars>>

\* AudioPlayer::toggle_play_state, line 484: match self.get_state().
Toggle ==
    /\ ctlPc = "idle"
    /\ tgState' = state
    /\ ctlOp' = "toggle"
    /\ ctlPc' = "toggle_match"
    /\ NoSeekLocals /\ NoLoadLocals
    /\ UNCHANGED <<shared, cbVars>>

\* The toggle that pauses a playing track instead of stopping it.
ToggleMatchPauses ==
    /\ ctlPc = "toggle_match"
    /\ IF tgState = "Playing"
       THEN state' = "Paused" /\ ctlPc' = "idle"
       ELSE state' = "Playing" /\ ctlPc' = "idle"
    /\ UNCHANGED <<out_channels, samples, samples_count, peak_samples, play_pos,
                   loop_enabled, samplesLock, ctlOp, tgState, skTotal, skPos,
                   ldPath, ldNew, ldResult, cbVars>>

\* AudioPlayer::toggle_play_state, lines 485-493: the arm of the state read,
\* up to the state write of the play() or stop() it calls.
ToggleMatch ==
    /\ ctlPc = "toggle_match"
    /\ IF tgState = "Playing"
       THEN state' = "Stopped" /\ ctlPc' = "stop_pos"
       ELSE state' = "Playing" /\ ctlPc' = "idle"
    /\ UNCHANGED <<out_channels, samples, samples_count, peak_samples, play_pos,
                   loop_enabled, samplesLock, ctlOp, tgState, skTotal, skPos,
                   ldPath, ldNew, ldResult, cbVars>>

\* AudioPlayer::set_loop: one write under the loop mutex.
SetLoop ==
    /\ ctlPc = "idle"
    /\ \E enabled \in BOOLEAN : loop_enabled' = enabled
    /\ ctlOp' = "set_loop"
    /\ NoToggleLocals /\ NoSeekLocals /\ NoLoadLocals
    /\ UNCHANGED <<out_channels, samples, samples_count, peak_samples, play_pos,
                   state, samplesLock, ctlPc, cbVars>>

\* seek_to_position, line 519: total_samples is read under the samples mutex,
\* which the call waits for while a callback holds it.
SeekRead(sample_pos, op) ==
    /\ ctlPc = "idle"
    /\ samplesLock = "free"
    /\ skTotal' = Len(samples)
    /\ skPos' = sample_pos
    /\ ctlOp' = op
    /\ ctlPc' = "seek_store"
    /\ NoToggleLocals /\ NoLoadLocals
    /\ UNCHANGED <<shared, cbVars>>

\* AudioPlayer::seek_to_position
Seek == \E sample_pos \in 0..MaxSeek : SeekRead(sample_pos, "seek")

\* AudioPlayer::seek_to_position_percentage
SeekPercentage ==
    \E pct \in Percents : SeekRead(PercentToIndex(samples_count, pct), "seek_pct")

\* The seek that stores the index it was given without clamping it.
SeekStoreUnclamped ==
    /\ ctlPc = "seek_store"
    /\ play_pos' = skPos
    /\ ctlPc' = "idle"
    /\ UNCHANGED <<out_channels, samples, samples_count, peak_samples, state,
                   loop_enabled, samplesLock, ctlOp, tgState, skTotal, skPos,
                   ldPath, ldNew, ldResult, cbVars>>

\* seek_to_position, lines 520-521: the clamped index is stored.
SeekStore ==
    /\ ctlPc = "seek_store"
    /\ play_pos' = Min2(skPos, skTotal)
    /\ ctlPc' = "idle"
    /\ UNCHANGED <<out_channels, samples, samples_count, peak_samples, state,
                   loop_enabled, samplesLock, ctlOp, tgState, skTotal, skPos,
                   ldPath, ldNew, ldResult, cbVars>>

\* ------------------------------------------------------ control thread: load

\* load, lines 193-229: open, probe, track selection and decoder creation.
\* Nothing of the player is touched; each failure returns its error.
LoadOpenFile(path) ==
    /\ ctlPc = "idle"
    /\ ldPath' = path
    /\ ldResult' = OpenError(Files[path])
    /\ ctlPc' = IF OpenError(Files[path]) = "none" THEN "load_stop" ELSE "idle"
    /\ ldNew' = <<>>
    /\ ctlOp' = "load"
    /\ NoToggleLocals /\ NoSeekLocals
    /\ UNCHANGED <<shared, cbVars>>

\* AudioPlayer::load, called while the render thread runs.
LoadOpen == \E path \in Paths : LoadOpenFile(path)

\* AudioPlayer::load, called on any file of the library.
LoadOpenLibrary == \E path \in LibraryPaths : LoadOpenFile(path)

\* The load that decodes without stopping the playback first.
LoadStopSkipped ==
    /\ ctlPc = "load_stop"
    /\ ctlPc' = "load_decode"
    /\ UNCHANGED <<shared, ctlOp, tgState, skTotal, skPos, ldPath, ldNew, ldResult,
                   cbVars>>

\* load, line 232: self.stop(), its state write (line 478); StopStorePos follows.
LoadStop ==
    /\ ctlPc = "load_stop"
    /\ state' = "Stopped"
    /\ ctlPc' = "stop_pos"
    /\ UNCHANGED <<out_channels, samples, samples_count, peak_samples, play_pos,
                   loop_enabled, samplesLock, ctlOp, tgState, skTotal, skPos,
                   ldPath, ldNew, ldResult, cbVars>>

\* load, lines 234-275: the decode loop into new_samples, the error returns
\* of the loop and of the empty result, and self.samples_count = new_samples.len().
LoadDecode ==
    /\ ctlPc = "load_decode"
    /\ LET r == DecodeLoop(Files[ldPath].packets, <<>>, out_channels)
       IN  IF r.err # "none"
           THEN /\ ldResult' = r.err
                /\ ctlPc' = "idle"
                /\ UNCHANGED <<ldNew, samples_count>>
           ELSE /\ ldNew' = r.out
                /\ samples_count' = Len(r.out)
                /\ ctlPc' = "load_swap"
                /\ UNCHANGED ldResult
    /\ UNCHANGED <<out_channels, samples, peak_samples, play_pos, state,
                   loop_enabled, samplesLock, ctlOp, tgState, skTotal, skPos,
                   ldPath, cbVars>>

\* load, line 276: *self.samples.lock().unwrap() = new_samples, which waits
\* for the samples mutex while a callback holds it.
LoadSwap ==
    /\ ctlPc = "load_swap"
    /\ samplesLock = "free"
    /\ samples' = ldNew
    /\ ldNew' = <<>>
    /\ ctlPc' = "load_pos"
    /\ UNCHANGED <<out_channels, samples_count, peak_samples, play_pos, state,
                   loop_enabled, samplesLock, ctlOp, tgState, skTotal, skPos,
                   ldPath, ldResult, cbVars>>

\* The load that leaves the position where it was.
LoadPosSkipped ==
    /\ ctlPc = "load_pos"
    /\ ctlPc' = "load_state"
    /\ UNCHANGED <<shared, ctlOp, tgState, skTotal, skPos, ldPath, ldNew, ldResult,
                   cbVars>>

\* load, line 277: self.play_pos.store(0).
LoadPos ==
    /\ ctlPc = "load_pos"
    /\ play_pos' = 0
    /\ ctlPc' = "load_state"
    /\ UNCHANGED <<out_channels, samples, samples_count, peak_samples, state,
                   loop_enabled, samplesLock, ctlOp, tgState, skTotal, skPos,
                   ldPath, ldNew, ldResult, cbVars>>

\* The load that switches the loop off along with the state.
LoadStateClearsLoop ==
    /\ ctlPc = "load_state"
    /\ state' = "Stopped"
    /\ loop_enabled' = FALSE
    /\ ctlPc' = "load_peaks"
    /\ UNCHANGED <<out_channels, samples, samples_count, peak_samples, play_pos,
                   samplesLock, ctlOp, tgState, skTotal, skPos,
                   ldPath, ldNew, ldResult, cbVars>>

\* load, line 278: *self.state.lock().unwrap() = Stopped.
LoadState ==
    /\ ctlPc = "load_state"
    /\ state' = "Stopped"
    /\ ctlPc' = "load_peaks"
    /\ UNCHANGED <<out_channels, samples, samples_count, peak_samples, play_pos,
                   loop_enabled, samplesLock, ctlOp, tgState, skTotal, skPos,
                   ldPath, ldNew, ldResult, cbVars>>

\* load, line 280: self.samples.lock() for the argument of compute_peaks.
LoadPeaksLock ==
    /\ ctlPc = "load_peaks"
    /\ samplesLock = "free"
    /\ samplesLock' = "ctl"
    /\ ctlPc' = "load_peaks_compute"
    /\ UNCHANGED <<out_channels, samples, samples_count, peak_samples, play_pos,
                   state, loop_enabled, ctlOp, tgState, skTotal, skPos,
                   ldPath, ldNew, ldResult, cbVars>>

\* load, lines 280-282: compute_peaks runs with the guard alive, the guard is
\* dropped at the end of the statement, and load returns Ok.
LoadPeaks ==
    /\ ctlPc = "load_peaks_compute"
    /\ peak_samples' = compute_peaks(samples)
    /\ samplesLock' = "free"
    /\ ldResult' = "Ok"
    /\ ctlPc' = "idle"
    /\ UNCHANGED <<out_channels, samples, samples_count, play_pos, state,
                   loop_enabled, ctlOp, tgState, skTotal, skPos, ldPath, ldNew,
                   cbVars>>

\* ------------------------------------------------- render thread: the callback

\* The locals of a callback invocation are dead when it returns.
CbReturn ==
    /\ cbPc' = "idle"
    /\ cbFrames' = 0
    /\ cbIdx' = 0
    /\ cbState' = "Stopped"
    /\ cbLoop' = FALSE
    /\ cbPos' = 0
    /\ data' = <<>>
    /\ samplesLock' = "free"

\* audio_callback, line 158: samples.lock(), with an output slice of
\* frames * out_channels elements from the host.
CbLock ==
    /\ cbPc = "idle"
    /\ samplesLock = "free"
    /\ samplesLock' = "cb"
    /\ \E frames \in 1..MaxOutFrames : cbFrames' = frames
    /\ cbPc' = "read_state"
    /\ UNCHANGED <<out_channels, samples, samples_count, peak_samples, play_pos,
                   state, loop_enabled, ctlVars, cbIdx, cbState, cbLoop, cbPos, data>>

\* audio_callback, line 159: current_state = *state.lock().unwrap().
CbReadState ==
    /\ cbPc = "read_state"
    /\ cbState' = state
    /\ cbPc' = "read_loop"
    /\ UNCHANGED <<shared, ctlVars, cbFrames, cbIdx, cbLoop, cbPos, data>>

\* audio_callback, line 160: is_looping = *loop_enabled.lock().unwrap().
CbReadLoop ==
    /\ cbPc = "read_loop"
    /\ cbLoop' = loop_enabled
    /\ cbPc' = "fill"
    /\ UNCHANGED <<shared, ctlVars, cbFrames, cbIdx, cbState, cbPos, data>>

\* The callback that fills its output with 1.0 instead of 0.0.
CbFillOnes ==
    /\ cbPc = "fill"
    /\ data' = Repeat(F32One, cbFrames * out_channels)
    /\ cbPc' = "check"
    /\ UNCHANGED <<shared, ctlVars, cbFrames, cbIdx, cbState, cbLoop, cbPos>>

\* audio_callback, line 163: data.fill(0.0).
CbFill ==
    /\ cbPc = "fill"
    /\ data' = Repeat(F32Zero, cbFrames * out_channels)
    /\ cbPc' = "check"
    /\ UNCHANGED <<shared, ctlVars, cbFrames, cbIdx, cbState, cbLoop, cbPos>>

\* audio_callback, lines 165-167: return unless Playing with a non-empty buffer.
CbCheck ==
    /\ cbPc = "check"
    /\ IF cbState # "Playing" \/ samples = <<>>
       THEN CbReturn
       ELSE /\ cbPc' = "load_pos"
            /\ UNCHANGED <<samplesLock, cbFrames, cbIdx, cbState, cbLoop, cbPos, data>>
    /\ UNCHANGED <<out_channels, samples, samples_count, peak_samples, play_pos,
                   state, loop_enabled, ctlVars>>

\* audio_callback, line 169: pos = play_pos.load().
CbLoadPos ==
    /\ cbPc = "load_pos"
    /\ cbPos' = play_pos
    /\ cbPc' = "frame"
    /\ UNCHANGED <<shared, ctlVars, cbFrames, cbIdx, cbState, cbLoop, data>>

\* frame.copy_from_slice(&samples_guard[from..from + out_channels]) into the
\* frame of data with index cbIdx.
CopyFrame(from) ==
    [i \in 1..Len(data) |->
        IF i > cbIdx * out_channels /\ i <= (cbIdx + 1) * out_channels
        THEN samples[from + (i - cbIdx * out_channels)]
        ELSE data[i]]

\* The callback that wraps the position modulo the buffer length instead of
\* restarting at 0.
CbFrameWrapsByModulo ==
    /\ cbPc = "frame"
    /\ IF cbIdx = cbFrames
       THEN /\ cbPc' = "store"
            /\ UNCHANGED <<state, cbIdx, cbPos, data>>
       ELSE IF cbPos + out_channels <= Len(samples)
       THEN /\ data' = CopyFrame(cbPos)
            /\ cbPos' = cbPos + out_channels
            /\ cbIdx' = cbIdx + 1
            /\ UNCHANGED <<state, cbPc>>
       ELSE IF cbLoop
       THEN /\ cbPos' = cbPos % Len(samples)
            /\ cbPc' = "wrap_copy"
            /\ UNCHANGED <<state, cbIdx, data>>
       ELSE /\ state' = "Stopped"
            /\ cbPc' = "store"
            /\ UNCHANGED <<cbIdx, cbPos, data>>
    /\ UNCHANGED <<out_channels, samples, samples_count, peak_samples, play_pos,
                   loop_enabled, samplesLock, ctlVars, cbFrames, cbState, cbLoop>>

\* The callback that rewinds the position to 0 when it stops at the end of the
\* buffer.
CbFrameRewindsOnStop ==
    /\ cbPc = "frame"
    /\ IF cbIdx = cbFrames
       THEN /\ cbPc' = "store"
            /\ UNCHANGED <<state, cbIdx, cbPos, data>>
       ELSE IF cbPos + out_channels <= Len(samples)
       THEN /\ data' = CopyFrame(cbPos)
            /\ cbPos' = cbPos + out_channels
            /\ cbIdx' = cbIdx + 1
            /\ UNCHANGED <<state, cbPc>>
       ELSE IF cbLoop
       THEN /\ cbPos' = 0
            /\ cbPc' = "wrap_copy"
            /\ UNCHANGED <<state, cbIdx, data>>
       ELSE /\ state' = "Stopped"
            /\ cbPos' = 0
            /\ cbPc' = "store"
            /\ UNCHANGED <<cbIdx, data>>
    /\ UNCHANGED <<out_channels, samples, samples_count, peak_samples, play_pos,
                   loop_enabled, samplesLock, ctlVars, cbFrames, cbState, cbLoop>>

\* The callback that copies a frame whenever the position lies inside the
\* buffer, whether or not a whole frame is left (elements past the end read
\* as silence).
CbFrameCopiesPartialFrame ==
    /\ cbPc = "frame"
    /\ IF cbIdx = cbFrames
       THEN /\ cbPc' = "store"
            /\ UNCHANGED <<state, cbIdx, cbPos, data>>
       ELSE IF cbPos < Len(samples)
       THEN /\ data' = [i \in 1..Len(data) |->
                          IF i > cbIdx * out_channels
                             /\ i <= (cbIdx + 1) * out_channels
                          THEN GetOrZero(samples,
                                         cbPos + (i - cbIdx * out_channels))
                          ELSE data[i]]
            /\ cbPos' = cbPos + out_channels
            /\ cbIdx' = cbIdx + 1
            /\ UNCHANGED <<state, cbPc>>
       ELSE IF cbLoop
       THEN /\ cbPos' = 0
            /\ cbPc' = "wrap_copy"
            /\ UNCHANGED <<state, cbIdx, data>>
       ELSE /\ state' = "Stopped"
            /\ cbPc' = "store"
            /\ UNCHANGED <<cbIdx, cbPos, data>>
    /\ UNCHANGED <<out_channels, samples, samples_count, peak_samples, play_pos,
                   loop_enabled, samplesLock, ctlVars, cbFrames, cbState, cbLoop>>

\* The callback that leaves the loop at the end of the buffer without writing
\* the state.
CbFrameNeverStops ==
    /\ cbPc = "frame"
    /\ IF cbIdx = cbFrames
       THEN /\ cbPc' = "store"
            /\ UNCHANGED <<state, cbIdx, cbPos, data>>
       ELSE IF cbPos + out_channels <= Len(samples)
       THEN /\ data' = CopyFrame(cbPos)
            /\ cbPos' = cbPos + out_channels
            /\ cbIdx' = cbIdx + 1
            /\ UNCHANGED <<state, cbPc>>
       ELSE IF cbLoop
       THEN /\ cbPos' = 0
            /\ cbPc' = "wrap_copy"
            /\ UNCHANGED <<state, cbIdx, data>>
       ELSE /\ cbPc' = "store"
            /\ UNCHANGED <<state, cbIdx, cbPos, data>>
    /\ UNCHANGED <<out_channels, samples, samples_count, peak_samples, play_pos,
                   loop_enabled, samplesLock, ctlVars, cbFrames, cbState, cbLoop>>

\* audio_callback, lines 171-187: one iteration of the loop over the frames of
\* data, or its end. A full frame is copied (172-174); else with loop the
\* position restarts at 0 (177, CbWrapCopy follows); else the state is set to
\* Stopped and the loop is left (184-185).
CbFrame ==
    /\ cbPc = "frame"
    /\ IF cbIdx = cbFrames
       THEN /\ cbPc' = "store"
            /\ UNCHANGED <<state, cbIdx, cbPos, data>>
       ELSE IF cbPos + out_channels <= Len(samples)
       THEN /\ data' = CopyFrame(cbPos)
            /\ cbPos' = cbPos + out_channels
            /\ cbIdx' = cbIdx + 1
            /\ UNCHANGED <<state, cbPc>>
       ELSE IF cbLoop
       THEN /\ cbPos' = 0
            /\ cbPc' = "wrap_copy"
            /\ UNCHANGED <<state, cbIdx, data>>
       ELSE /\ state' = "Stopped"
            /\ cbPc' = "store"
            /\ UNCHANGED <<cbIdx, cbPos, data>>
    /\ UNCHANGED <<out_channels, samples, samples_count, peak_samples, play_pos,
                   loop_enabled, samplesLock, ctlVars, cbFrames, cbState, cbLoop>>

\* audio_callback, lines 178-181: after the restart at 0 the first frame is
\* copied if the buffer holds one.
CbWrapCopy ==
    /\ cbPc = "wrap_copy"
    /\ IF out_channels <= Len(samples)
       THEN /\ data' = CopyFrame(0)
            /\ cbPos' = cbPos + out_channels
       ELSE UNCHANGED <<data, cbPos>>
    /\ cbIdx' = cbIdx + 1
    /\ cbPc' = "frame"
    /\ UNCHANGED <<shared, ctlVars, cbFrames, cbState, cbLoop>>

\* audio_callback, line 190: play_pos.store(pos).
CbStore ==
    /\ cbPc = "store"
    /\ play_pos' = cbPos
    /\ cbPc' = "unlock"
    /\ UNCHANGED <<out_channels, samples, samples_count, peak_samples, state,
                   loop_enabled, samplesLock, ctlVars, cbFrames, cbIdx, cbState,
                   cbLoop, cbPos, data>>

\* audio_callback, line 191: samples_guard is dropped and the callback returns.
CbUnlock ==
    /\ cbPc = "unlock"
    /\ CbReturn
    /\ UNCHANGED <<out_channels, samples, samples_count, peak_samples, play_pos,
                   state, loop_enabled, ctlVars>>

\* ------------------------------------------------------------ specification

Next ==
    \/ Play
    \/ Pause
    \/ Stop
    \/ StopStorePos
    \/ Toggle
    \/ ToggleMatch
    \/ SetLoop
    \/ Seek
    \/ SeekPercentage
    \/ SeekStore
    \/ LoadOpen
    \/ LoadStop
    \/ LoadDecode
    \/ LoadSwap
    \/ LoadPos
    \/ LoadState
    \/ LoadPeaksLock
    \/ LoadPeaks
    \/ CbLock
    \/ CbReadState
    \/ CbReadLoop
    \/ CbFill
    \/ CbCheck
    \/ CbLoadPos
    \/ CbFrame
    \/ CbWrapCopy
    \/ CbStore
    \/ CbUnlock

Spec == Init /\ [][Next]_vars

\* The control thread alone, with the stream not running (no callback is
\* invoked): load over every file of the library, and the percentage seek.
LibraryNext ==
    \/ LoadOpenLibrary
    \/ LoadStop
    \/ StopStorePos
    \/ LoadDecode
    \/ LoadSwap
    \/ LoadPos
    \/ LoadState
    \/ LoadPeaksLock
    \/ LoadPeaks
    \/ SeekPercentage
    \/ SeekStore

LibrarySpec == LibraryInit /\ [][LibraryNext]_vars

\* What load(path) decodes on this device.
Decoded(path) == DecodeLoop(Files[path].packets, <<>>, out_channels).out

\* A player that has loaded a track, set the loop flag, sought to a position
\* of the buffer and called play(); no callback is in flight.
PlaybackInit ==
    /\ out_channels \in 1..MaxOutChannels
    /\ \E path \in Paths :
          /\ ~LoadFails(path, out_channels)
          /\ samples = Decoded(path)
    /\ samples_count = Len(samples)
    /\ peak_samples = compute_peaks(samples)
    /\ play_pos \in 0..Len(samples)
    /\ state = "Playing"
    /\ loop_enabled \in BOOLEAN
    /\ samplesLock = "free"
    /\ ctlPc = "idle"
    /\ ctlOp = "play"
    /\ tgState = "Stopped"
    /\ skTotal = 0
    /\ skPos = 0
    /\ ldPath = "none"
    /\ ldNew = <<>>
    /\ ldResult = "none"
    /\ cbPc = "idle"
    /\ cbFrames = 0
    /\ cbIdx = 0
    /\ cbState = "Stopped"
    /\ cbLoop = FALSE
    /\ cbPos = 0
    /\ data = <<>>

\* The render thread alone: the control thread makes no further call.
PlaybackNext ==
    \/ CbLock
    \/ CbReadState
    \/ CbReadLoop
    \/ CbFill
    \/ CbCheck
    \/ CbLoadPos
    \/ CbFrame
    \/ CbWrapCopy
    \/ CbStore
    \/ CbUnlock

\* The host keeps invoking the callback while the stream runs, and a callback
\* that has been invoked runs to its end.
PlaybackSpec == PlaybackInit /\ [][PlaybackNext]_vars /\ WF_vars(PlaybackNext)

\* ------------------------------------------------------------------ claims

\* A step of the render thread: every step of a callback moves cbPc or cbIdx.
CallbackStep == cbPc' # cbPc \/ cbIdx' # cbIdx

\* C1: once stop() has returned, and until the next control call, the state is
\* Stopped and the position is 0, whatever a callback that was in flight does.
C1_StopLeavesStoppedAtZero ==
    (ctlOp = "stop" /\ ctlPc = "idle") => (state = "Stopped" /\ play_pos = 0)

\* C2: in every reachable state the playback position is at most the length of
\* the current sample buffer.
C2_PositionWithinBuffer == play_pos <= Len(samples)

\* C3: the render thread sees load's buffer swap and position reset as one
\* step: no callback reads the position between the swap (line 276) and the
\* reset (line 277), when the new buffer is paired with the old position, and
\* the buffer is never replaced under a callback invocation, so none pairs the
\* old buffer with the position load has reset.
C3_SwapAndResetSeenAsOne ==
    [][/\ (cbPc = "load_pos" /\ cbPc' = "frame") => ctlPc # "load_pos"
       /\ (samples' # samples) => cbPc = "idle"]_vars

\* C3 witness: a callback invocation holds the new buffer while load is between
\* the swap and the reset and the position left over from the old buffer is
\* out of the new buffer's range.
C3_Witness ==
    /\ ctlPc = "load_pos"
    /\ cbPc = "check"
    /\ play_pos > Len(samples)

\* C4: no step of a load call that fails changes the sample buffer, the
\* position, the state or the peaks, so they are after the call what they were
\* before it.
C4_FailedLoadChangesNothing ==
    [][(ctlOp = "load" /\ ctlPc # "idle" /\ ctlPc' # ctlPc
            /\ LoadFails(ldPath, out_channels))
        => UNCHANGED <<samples, play_pos, state, peak_samples>>]_vars

\* C5: when load has returned Ok, and until the next control call, the buffer
\* is the decoded one, the position is 0, the state is Stopped and the peaks
\* are compute_peaks of the decoded buffer, whatever the callbacks did.
C5_SuccessfulLoadInstalls ==
    (ctlOp = "load" /\ ctlPc = "idle" /\ ldResult = "Ok") =>
        /\ samples = Decoded(ldPath)
        /\ samples # <<>>
        /\ play_pos = 0
        /\ state = "Stopped"
        /\ peak_samples = compute_peaks(Decoded(ldPath))

\* C5 witness: load has returned Ok over a track that was loaded before, while
\* a callback invocation is in flight.
C5_Witness ==
    /\ ctlOp = "load" /\ ctlPc = "idle" /\ ldResult = "Ok"
    /\ cbPc \notin {"idle"}
    /\ samples = Decoded("mono_s16")

\* C6: at the return of toggle_play_state the state is Playing if toggle read
\* Stopped or Paused, and Stopped with position 0 if it read Playing; it is
\* never Paused, whatever the callback did between the read and the return.
C6_ToggleTransitions ==
    [][(ctlOp = "toggle" /\ ctlPc # "idle" /\ ctlPc' = "idle") =>
          /\ tgState \in {"Stopped", "Paused"} => state' = "Playing"
          /\ tgState = "Playing" => (state' = "Stopped" /\ play_pos' = 0)
          /\ state' # "Paused"]_vars

\* C6 witness: toggle read Playing, the callback stopped at the end of the
\* buffer meanwhile, and toggle has returned with Stopped and position 0 while
\* that callback is still to write its position back.
C6_Witness ==
    /\ ctlOp = "toggle" /\ ctlPc = "idle" /\ tgState = "Playing"
    /\ state = "Stopped" /\ play_pos = 0
    /\ cbPc = "store" /\ cbPos > 0

\* C7: pause() leaves the position unchanged: after it has returned, and until
\* the next play, stop, seek or load, the position stays what it was when
\* pause() was called, also when a callback is in flight.
C7_PauseKeepsPosition ==
    [][(ctlOp = "pause" /\ ctlPc = "idle" /\ ctlOp' = "pause" /\ ctlPc' = "idle")
        => play_pos' = play_pos]_vars

\* C8: a step of the render callback changes the state only from Playing to
\* Stopped, and only at the end of the buffer with loop disabled.
C8_CallbackOnlyStopsPlaying ==
    [][(CallbackStep /\ state' # state) =>
          /\ state = "Playing" /\ state' = "Stopped"
          /\ ~cbLoop
          /\ cbPos + out_channels > Len(samples)]_vars

\* C9: with loop disabled, a callback invocation that has copied frames up to
\* the end of the buffer (less than a frame is left) leaves the state Stopped
\* and the position equal to the buffer length.
C9_StoppedAtLengthAfterFinalFrame ==
    (cbPc = "unlock" /\ ~cbLoop /\ cbIdx >= 1
        /\ cbPos + out_channels > Len(samples)) =>
        (state = "Stopped" /\ play_pos = Len(samples))

\* C10: with loop enabled the position restarts in [0, out_channels) when the
\* callback runs past the end, and the callback's local position never exceeds
\* the buffer length.
C10_LoopWrapInRange ==
    /\ cbPc = "wrap_copy" => (cbPos >= 0 /\ cbPos < out_channels)
    /\ cbPc \in {"frame", "wrap_copy", "store", "unlock"} => cbPos <= Len(samples)

\* C10 witness: a looping callback has copied the last frame, run past the
\* end and restarted.
C10_Witness ==
    /\ cbPc = "wrap_copy" /\ cbLoop
    /\ cbIdx >= 1
    /\ cbPos = 0

\* A sequence of samples that are all 0.0.
AllZero(xs) == \A i \in 1..Len(xs) : xs[i][1] = 0

\* C11: while the buffer is empty the state is never Playing, and a callback
\* that has run its body on the empty buffer has written only zeros to its
\* output and never reaches its read or its write of the position, which
\* stays 0.
C11_EmptyBufferNeverPlaying ==
    samples = <<>> =>
        /\ state # "Playing"
        /\ cbPc \in {"check", "unlock"} => AllZero(data)
        /\ cbPc \notin {"load_pos", "frame", "wrap_copy", "store"}
        /\ play_pos = 0

\* C12: seek_to_position(index) returns with the position min(index, length
\* of the buffer), whatever the index, and none of its steps changes the
\* state, the loop flag or the buffer.
C12_SeekClampsToLength ==
    [][/\ (ctlPc = "idle" /\ ctlPc' = "seek_store" /\ ctlOp' = "seek") =>
              UNCHANGED <<state, loop_enabled, samples, play_pos>>
       /\ (ctlOp = "seek" /\ ctlPc = "seek_store" /\ ctlPc' = "idle") =>
              /\ play_pos' = Min2(skPos, Len(samples))
              /\ UNCHANGED <<state, loop_enabled, samples>>]_vars

\* C12 witness: a seek past the end of a loaded buffer has returned while the
\* track plays, and the position is the buffer length.
C12_Witness ==
    /\ ctlOp = "seek" /\ ctlPc = "idle"
    /\ samples # <<>> /\ skPos > Len(samples)
    /\ state = "Playing"
    /\ play_pos = Len(samples)

\* The intact stereo files of the library: every packet is read, decodes and
\* has two channels.
StereoPaths ==
    {p \in LibraryPaths :
        /\ OpenError(Files[p]) = "none"
        /\ Files[p].packets # <<>>
        /\ \A k \in 1..Len(Files[p].packets) :
              LET pkt == Files[p].packets[k]
              IN  pkt.readable /\ pkt.decodable /\ pkt.channels = 2
                  /\ pkt.enc \in SupportedEncodings}

\* C13: on a stereo device with the buffer of a stereo file installed,
\* seek_to_position_percentage(0.5) returns with the position
\* floor(0.5 * samples_count) rounded down to a frame boundary, a multiple of
\* the channel count.
C13_HalfSeekOnFrameBoundary ==
    [][(/\ ctlOp = "seek_pct" /\ ctlPc = "seek_store" /\ ctlPc' = "idle"
        /\ out_channels = 2
        /\ samples # <<>>
        /\ \E p \in StereoPaths : samples = Decoded(p)
        /\ samples_count % out_channels = 0
        /\ skPos = PercentToIndex(samples_count, 50))
       => /\ play_pos' % out_channels = 0
          /\ play_pos' = (PercentToIndex(samples_count, 50) \div out_channels)
                              * out_channels]_vars

\* C14: only a step of set_loop changes the loop flag (no step of load, stop,
\* seek, play, pause, toggle or of the callback does), and the step of
\* set_loop changes neither the state nor the position.
C14_LoopFlagOnlyBySetLoop ==
    [][/\ (loop_enabled' # loop_enabled) =>
              (ctlPc = "idle" /\ ctlPc' = "idle" /\ ctlOp' = "set_loop" /\ ~CallbackStep)
       /\ (ctlPc = "idle" /\ ctlOp' = "set_loop" /\ ~CallbackStep) =>
              UNCHANGED <<state, play_pos>>]_vars

\* C14 witness: a load has installed a buffer and returned Ok with the loop
\* flag still set.
C14_Witness ==
    /\ ctlOp = "load" /\ ctlPc = "idle" /\ ldResult = "Ok"
    /\ samples = Decoded("stereo_u8")
    /\ loop_enabled

\* C15: compute_peaks of the buffer the player holds is empty for a buffer of
\* length 0, and for a buffer of length 1 or more has between 1 and
\* target_points (2000) points, each with min <= max.
C15_PeaksBetweenOneAndTarget ==
    LET peaks == compute_peaks(samples)
    IN  /\ samples = <<>> => peaks = <<>>
        /\ samples # <<>> =>
              /\ Len(peaks) >= 1
              /\ Len(peaks) <= target_points
              /\ \A k \in 1..Len(peaks) : ~RatLess(peaks[k][2], peaks[k][1])

\* The packets of a file that the decode loop of load converts (lines
\* 238-265): the loop ends at the first packet that cannot be read (`while
\* let Ok`, line 238), and load returns at the first packet that does not
\* decode (line 246) or whose sample encoding process_audio_buffer rejects
\* (line 249), so no packet from that one on is converted.
RECURSIVE ConvertedPackets(_)
ConvertedPackets(pkts) ==
    IF pkts = <<>> THEN <<>>
    ELSE IF ~Head(pkts).readable THEN <<>>
    ELSE IF ~Head(pkts).decodable THEN <<>>
    ELSE IF Head(pkts).enc \notin SupportedEncodings THEN <<>>
    ELSE <<Head(pkts)>> \o ConvertedPackets(Tail(pkts))

\* C16: the length of the installed buffer and of the buffer being decoded is
\* a multiple of the output channel count (or 0), and each packet of the file
\* being loaded makes process_audio_buffer append a multiple of the output
\* channel count, whatever the channel counts and the packet length.
C16_LengthMultipleOfChannels ==
    /\ Len(samples) % out_channels = 0
    /\ Len(ldNew) % out_channels = 0
    /\ ctlPc = "load_decode" =>
          \A k \in 1..Len(Files[ldPath].packets) :
              Len(process_audio_buffer(Files[ldPath].packets[k], out_channels).out)
                  % out_channels = 0

\* C16 witness: a file of three channels has been decoded for a device of two
\* channels (the fallback branch of convert_buffer) and its buffer installed.
C16_Witness ==
    /\ ctlOp = "load" /\ ctlPc = "load_pos" /\ ldPath = "three_ch"
    /\ out_channels = 2
    /\ Len(samples) = 4

\* The planes of a packet, one per channel of the source.
Planes(pkt) ==
    <<pkt.ch0>> \o (IF pkt.channels > 1 THEN <<pkt.ch1>> ELSE <<>>) \o pkt.more

\* The normalized samples of a packet in the interleaved order of the source:
\* frame by frame, every channel of the frame in channel order.
Interleaved(pkt) ==
    Flatten([i \in 1..Len(pkt.ch0) |->
                [c \in 1..Len(Planes(pkt)) |-> Normalize(pkt.enc, Planes(pkt)[c][i])]])

\* The interleaved samples of the packets load converts from a file.
SourceInterleaved(path) ==
    LET pkts == ConvertedPackets(Files[path].packets)
    IN  Flatten([k \in 1..Len(pkts) |-> Interleaved(pkts[k])])

\* Every packet load converts from the file has as many channels as the
\* device.
SameChannels(path) ==
    LET pkts == ConvertedPackets(Files[path].packets)
    IN  \A k \in 1..Len(pkts) : pkts[k].channels = out_channels

\* C17: when load has returned Ok on a file with as many channels as the
\* device, the installed buffer is the interleaved samples of the source,
\* whatever the channel count and the content.
C17_RemixIdentityOnEqualChannels ==
    (ctlOp = "load" /\ ctlPc = "idle" /\ ldResult = "Ok" /\ SameChannels(ldPath)) =>
        samples = SourceInterleaved(ldPath)

\* The first plane of every packet load converts, each sample written to every
\* output channel.
FirstPlaneBroadcast(path) ==
    LET pkts == ConvertedPackets(Files[path].packets)
    IN  Flatten([k \in 1..Len(pkts) |->
            Flatten([i \in 1..Len(pkts[k].ch0) |->
                Repeat(Normalize(pkts[k].enc, pkts[k].ch0[i]), out_channels)])])

\* C17 (amended): when load has returned Ok on a file with as many channels
\* as the device, the installed buffer is the interleaved samples of the
\* source if that channel count is 1 or 2; for 3 channels or more it is the
\* first channel of the source written to every output channel.
C17_RemixIdentityUpToStereo ==
    (ctlOp = "load" /\ ctlPc = "idle" /\ ldResult = "Ok" /\ SameChannels(ldPath)) =>
        IF out_channels <= 2
        THEN samples = SourceInterleaved(ldPath)
        ELSE samples = FirstPlaneBroadcast(ldPath)

\* C17 witness: a stereo file with different left and right samples has been
\* loaded on a stereo device.
C17_Witness ==
    /\ ctlOp = "load" /\ ctlPc = "idle" /\ ldResult = "Ok"
    /\ ldPath = "stereo_f64" /\ out_channels = 2
    /\ samples = <<F32(1, 1), F32(3, 2), F32(-1, 2), F32Zero>>

\* The integer sample encodings, with the least and the greatest raw sample
\* of each.
IntegerEncodings == {"U8", "S16", "S24", "S32"}

RawMin(enc) ==
    CASE enc = "U8" -> U8Min [] enc = "S16" -> I16Min
      [] enc = "S24" -> I24Min [] enc = "S32" -> I32Min

RawMax(enc) ==
    CASE enc = "U8" -> U8Max [] enc = "S16" -> I16Max
      [] enc = "S24" -> I24Max [] enc = "S32" -> I32Max

\* -1.0 <= v <= 1.0 for an f32 v.
InUnit(v) == v[1] = 0 \/ Top(v) <= 0 \/ v = F32One \/ v = F32(-1, 0)

\* C18: for every sample of an integer-encoded packet that the load about to
\* decode its file converts, the normalized value (raw value / divisor, in
\* f32) is +1.0 for the greatest raw sample of the encoding, -1.0 for the
\* least, and within [-1.0, 1.0]; and every sample of the installed buffer is
\* within [-1.0, 1.0].
C18_NormalizedExtremesAreUnit ==
    /\ \A i \in 1..Len(samples) : InUnit(samples[i])
    /\ ctlPc = "load_decode" =>
          LET pkts == ConvertedPackets(Files[ldPath].packets)
          IN  \A k \in 1..Len(pkts) :
                pkts[k].enc \in IntegerEncodings =>
                  \A c \in 1..Len(Planes(pkts[k])) :
                    \A i \in 1..Len(Planes(pkts[k])[c]) :
                      LET raw == Planes(pkts[k])[c][i]
                          v == Normalize(pkts[k].enc, raw)
                      IN  /\ raw = RawMax(pkts[k].enc) => v = F32One
                          /\ raw = RawMin(pkts[k].enc) => v = F32(-1, 0)
                          /\ InUnit(v)

\* A file that opens and has a packet that cannot be read or does not decode
\* before the end of its stream.
HasBadPacket(path) ==
    \E k \in 1..Len(Files[path].packets) :
        ~Files[path].packets[k].readable \/ ~Files[path].packets[k].decodable

\* C19: a load of a file with a packet that cannot be read or decoded never
\* gets past its decode loop (it builds no buffer and installs none), and it
\* returns an error.
C19_PartialFileRejected ==
    (ctlOp = "load" /\ HasBadPacket(ldPath)) =>
        /\ ctlPc \in {"load_stop", "stop_pos", "load_decode", "idle"}
        /\ ldNew = <<>>
        /\ ctlPc = "idle" => ldResult \notin {"Ok", "none"}

\* C20: in load the peaks are computed before the new buffer is installed
\* (from the swap on, peak_samples are the peaks of the installed buffer), and
\* the control thread holds the samples mutex across no step but the swap, so
\* that no callback waits for it while compute_peaks runs.
C20_PeaksOutsideTheLock ==
    /\ (ctlOp = "load"
           /\ ctlPc \in {"load_pos", "load_state", "load_peaks", "load_peaks_compute"})
          => peak_samples = compute_peaks(samples)
    /\ samplesLock # "ctl"

\* The callback is past its guard (lines 165-167): it reads the position,
\* copies frames or stores the position.
CallbackCopies == cbPc \in {"load_pos", "frame", "wrap_copy", "store"}

\* The new buffer of the running load is installed and load has not returned.
LoadInstalled ==
    ctlOp = "load"
        /\ ctlPc \in {"load_pos", "load_state", "load_peaks", "load_peaks_compute"}

\* C21: from the installation of the new buffer until load returns no
\* callback invocation copies samples and the state is not Playing, and every
\* load call that has returned, successful or not, has left the state not
\* Playing.
C21_LoadLeavesNotPlaying ==
    /\ LoadInstalled => (~CallbackCopies /\ state # "Playing")
    /\ (ctlOp = "load" /\ ctlPc = "idle") => state # "Playing"

\* C21 (amended): from the installation of the new buffer until load returns
\* no callback invocation copies samples and the state is not Playing; a load
\* that has got past its stop() (line 232) leaves the state Stopped when it
\* returns, with Ok or with a decoding error, and a load that fails before it
\* (open, probe, track, decoder) does not write the state.
C21_LoadPastStopLeavesStopped ==
    [][/\ LoadInstalled => (~CallbackCopies /\ state # "Playing")
       /\ (ctlOp = "load" /\ ctlPc \in {"load_decode", "load_peaks_compute"}
              /\ ctlPc' = "idle") => state' = "Stopped"
       /\ (ctlPc = "idle" /\ ctlOp' = "load" /\ ctlPc' = "idle" /\ ~CallbackStep) =>
              state' = state]_vars

\* C21 witness: a load made while the track played has installed its buffer
\* (the position written back by the last playing callback is still there),
\* and a callback invoked since is at its guard with the state it read,
\* Stopped.
C21_Witness ==
    /\ ctlOp = "load" /\ ctlPc = "load_pos"
    /\ play_pos > 0
    /\ cbPc = "check" /\ cbState = "Stopped"

\* The position the running callback read at line 169, while loop is off: each
\* copied frame advanced the local position by out_channels.
StartPos == cbPos - cbIdx * out_channels

\* C22: when a callback that read the state Playing and loop disabled on a
\* non-empty buffer is about to write the position back, it has copied
\* k = min(output frames, floor((len - pos) / channels)) frames, pos being the
\* position it started from; its output is the k * channels buffer elements
\* from pos on followed by zeros, and the position it writes is
\* pos + k * channels.
C22_OutputIsCopiedFramesThenZeros ==
    (cbPc = "store" /\ cbState = "Playing" /\ ~cbLoop /\ samples # <<>>) =>
        LET k == Min2(cbFrames, (Len(samples) - StartPos) \div out_channels)
        IN  /\ cbIdx = k
            /\ cbPos = StartPos + k * out_channels
            /\ Len(data) = cbFrames * out_channels
            /\ \A i \in 1..Len(data) :
                  data[i] = IF i <= k * out_channels
                            THEN samples[StartPos + i] ELSE F32Zero

\* C22 witness: a callback asked for two frames started inside the buffer,
\* copied the one frame that was left and is about to write the position back;
\* the second frame of its output is zeros.
C22_Witness ==
    /\ cbPc = "store" /\ cbState = "Playing" /\ ~cbLoop
    /\ cbFrames = 2 /\ cbIdx = 1
    /\ StartPos > 0
    /\ cbPos = Len(samples)
    /\ data[1] = samples[StartPos + 1]
    /\ data[Len(data)] = F32Zero

\* The seek that returned last was made while the state was Paused or Stopped:
\* the state is Paused (no callback writes Paused), or it is Stopped and the
\* callback in flight has not written it (it has not run out of buffer with
\* loop off), so the control thread wrote it before the seek.
SeekMadeWhileIdle ==
    \/ state = "Paused"
    \/ /\ state = "Stopped"
       /\ cbPc # "idle" => (cbLoop \/ cbPos + out_channels <= Len(samples))

\* A callback is in flight that read the state Playing on a non-empty buffer:
\* it is at or past its guard and will store its position at line 190.
WriterInFlight ==
    /\ cbPc \in {"check", "load_pos", "frame", "wrap_copy", "store"}
    /\ cbState = "Playing"
    /\ samples # <<>>

\* C23: a step of a callback that read a state other than Playing, or that
\* runs on an empty buffer, writes neither the position nor the state and
\* leaves only zeros in its output; and once a seek made while the state was
\* Paused or Stopped has returned, no step of a callback changes the position
\* it stored; and when stop() is called while the state is Paused or Stopped,
\* no callback is in flight that will write the position after it.
C23_IdleCallbackWritesNothing ==
    [][/\ (CallbackStep /\ cbPc \in {"read_loop", "fill", "check"}
              /\ (cbState # "Playing" \/ samples = <<>>)) =>
              /\ UNCHANGED <<play_pos, state>>
              /\ AllZero(data')
              /\ cbPc' \in {"fill", "check", "idle"}
       /\ (CallbackStep /\ ctlOp \in {"seek", "seek_pct"} /\ ctlPc = "idle"
              /\ SeekMadeWhileIdle) =>
              play_pos' = play_pos
       /\ (ctlPc = "idle" /\ ctlPc' = "stop_pos" /\ state \in {"Paused", "Stopped"}) =>
              ~WriterInFlight]_vars

\* C24: when the control thread makes no further call and the host keeps
\* invoking the callback, a track that plays with loop disabled is eventually
\* Stopped, and with loop enabled the callback never writes the state: the
\* track keeps playing.
C24_PlaybackEndsUnlessLooping ==
    /\ (state = "Playing" /\ ~loop_enabled /\ samples # <<>>) ~> (state = "Stopped")
    /\ [](loop_enabled /\ Len(samples) >= out_channels => state = "Playing")

\* C24 witness: with loop disabled a callback has copied the last frame of
\* the buffer, found no further frame and set the state to Stopped.
C24_Witness ==
    /\ ~loop_enabled /\ state = "Stopped"
    /\ cbPc = "store" /\ cbState = "Playing"
    /\ cbIdx >= 1 /\ cbIdx < cbFrames
    /\ cbPos = Len(samples)

\* v = (l + r) * 0.5 in f32: twice v is the f32 sum of l and r.
IsHalfSum(v, l, r) == F32(2 * v[1], v[2]) = F32Add(l, r)

\* The remix table for one packet of n channels on a device of m channels:
\* element j of the appended samples belongs to frame (j - 1) \div m + 1 and
\* to output channel (j - 1) % m.
FollowsRemixTable(out, left, right, n, m) ==
    /\ Len(out) = Len(left) * m
    /\ \A j \in 1..Len(out) :
          LET f == (j - 1) \div m + 1
              c == (j - 1) % m
          IN  CASE n = 1 /\ m = 1 -> out[j] = left[f]
                [] n = 1 /\ m = 2 -> out[j] = left[f]
                [] n = 2 /\ m = 1 -> IsHalfSum(out[j], left[f], right[f])
                [] n = 2 /\ m = 2 -> out[j] = (IF c = 0 THEN left[f] ELSE right[f])
                [] OTHER          -> out[j] = left[f]

\* C25: every packet that the load about to decode its file converts is
\* converted without an error, and the samples appended for it follow the
\* remix table: (1,1) the
\* channel unchanged, (1,2) each sample twice, (2,1) (left + right) * 0.5 per
\* frame, (2,2) left, right interleaved, every other pair the first channel's
\* sample out_channels times per frame.
C25_ConvertFollowsRemixTable ==
    ctlPc = "load_decode" =>
        LET pkts == ConvertedPackets(Files[ldPath].packets)
        IN  \A k \in 1..Len(pkts) :
              LET r == process_audio_buffer(pkts[k], out_channels)
              IN  /\ r.err = "none"
                  /\ FollowsRemixTable(
                        r.out,
                        NormalizeChan(pkts[k].enc, pkts[k].ch0),
                        NormalizeChan(pkts[k].enc, pkts[k].ch1),
                        pkts[k].channels, out_channels)

\* C25 witness: a stereo file with different left and right samples has been
\* decoded for a mono device; the new buffer holds the half sums.
C25_Witness ==
    /\ ctlOp = "load" /\ ctlPc = "load_swap" /\ ldPath = "stereo_f64"
    /\ out_channels = 1
    /\ ldNew = <<F32(5, 3), F32(-1, 3)>>

\* C26: once a seek has returned, the write-back of a callback (loop off)
\* either moves the stored position on by the frames that callback copied (the
\* callback started from the sought position or from one written after it) or
\* leaves it as it is: it does not replace the sought position by a different
\* one advanced from an older position.
C26_SeekNotOverwrittenByCallback ==
    [][(/\ CallbackStep /\ cbPc = "store" /\ ~cbLoop
        /\ ctlOp \in {"seek", "seek_pct"} /\ ctlPc = "idle")
       => (play_pos' = play_pos + cbIdx * out_channels \/ play_pos' = play_pos)]_vars

\* The player rests at the end of its track with loop off: less than a frame
\* is left after the position, and a callback in flight, if any, read loop off
\* and that position and has copied nothing.
AtEndOfTrack ==
    /\ samples # <<>>
    /\ ~loop_enabled
    /\ play_pos + out_channels > Len(samples)
    /\ cbPc \in {"fill", "check", "load_pos", "frame", "wrap_copy", "store", "unlock"}
          => ~cbLoop
    /\ cbPc \in {"frame", "wrap_copy", "store", "unlock"}
          => (cbState = "Playing" => (cbPos = play_pos /\ cbIdx = 0))

\* A step of stop, seek, load or set_loop (stop includes the stop() that
\* toggle_play_state calls for a playing track).
RepositioningStep ==
    /\ ~CallbackStep
    /\ \/ ctlOp' \in {"stop", "seek", "seek_pct", "load", "set_loop"}
       \/ ctlPc = "stop_pos"
       \/ ctlPc' = "stop_pos"

\* C27: while the player rests at the end of its track with loop off, every
\* step other than one of stop, seek, load or set_loop leaves the position
\* where it is and the player at the end of its track; play() and
\* toggle_play_state() set Playing, and the step of a callback that read
\* Playing copies no sample and sets the state back to Stopped.
C27_NoReplayAtEndOfTrack ==
    [][(AtEndOfTrack /\ ~RepositioningStep) =>
          /\ play_pos' = play_pos
          /\ AtEndOfTrack'
          /\ AllZero(data')
          /\ (ctlPc = "idle" /\ ctlOp' = "play" /\ ~CallbackStep) => state' = "Playing"
          /\ (ctlPc = "toggle_match" /\ tgState # "Playing" /\ ~CallbackStep) =>
                state' = "Playing"
          /\ (CallbackStep /\ cbPc = "frame" /\ cbState = "Playing") =>
                (state' = "Stopped" /\ cbIdx' = 0 /\ cbPc' = "store")]_vars

\* C27 witness: at the end of the track toggle_play_state() has set Playing
\* and the next callback, having copied nothing, has set the state back to
\* Stopped.
C27_Witness ==
    /\ AtEndOfTrack
    /\ ctlOp = "toggle" /\ ctlPc = "idle"
    /\ state = "Stopped"
    /\ cbPc = "store" /\ cbState = "Playing" /\ cbIdx = 0
    /\ play_pos = Len(samples)

\* ---------------------------------------------------------------------------
\* The locking of audio_player.rs, one step per shared access.
\*
\* Spec takes the state and the loop mutex inside single steps, which is what
\* a guard that lives for one statement allows as long as no thread holds one
\* of them while it waits for another lock.  LockSpec checks that premise.
\* Each function is the script of its shared accesses in program order: the
\* acquisition and the release of a mutex, and the load and the store of the
\* atomic play_pos.  A thread at event label e_i is about to perform the i-th
\* event of its script; a step performs the event and the code of the thread
\* up to its next event.  The samples mutex keeps its variable, the holders
\* of the other two follow from the positions of the threads.
\* ---------------------------------------------------------------------------

Acq(l) == <<"acq", l>>

Rel(l) == <<"rel", l>>

\* `*self.x.lock().unwrap()` in a statement of its own: the guard is a
\* temporary, dropped at the end of that statement.
Guarded(l) == <<Acq(l), Rel(l)>>

\* play_pos.load(Ordering::Relaxed)
LoadPlayPos == <<"load", "play_pos">>

\* play_pos.store(.., Ordering::Relaxed)
StorePlayPos == <<"store", "play_pos">>

EventLabel == <<"e1", "e2", "e3", "e4", "e5", "e6", "e7", "e8", "e9", "e10">>

EventLabels == {EventLabel[i] : i \in DOMAIN EventLabel}

Index(pc) == CHOOSE i \in DOMAIN EventLabel : EventLabel[i] = pc

\* The calls of the control thread that touch a mutex.
LockOps == {"play", "pause", "stop", "toggle", "set_loop", "get_state",
            "seek", "seek_pct", "get_duration", "load"}

\* The files LockSpec loads: a stereo and a mono file that decode, one that
\* does not open and one whose decode loop fails.
LockPaths == {"stereo_u8", "mono_s16", "missing", "corrupt"}

\* The indices LockSpec seeks to: the start, an odd index, and one past the
\* end of every buffer.
LockSeeks == {0, 1, MaxSeek}

\* AudioPlayer::stop: the state write, then the position store.
StopScript == Guarded("state") \o <<StorePlayPos>>

\* AudioPlayer::load of a file that opens: stop() (232), the buffer swap
\* (276), the position store (277), the state write (278) and compute_peaks
\* under the samples guard (280).  A load whose file does not open (lines
\* 196-229) returns before the first of these events, and one whose decode
\* loop fails or gives nothing (lines 241-267) returns after stop().
LoadScript ==
    StopScript \o Guarded("samples") \o <<StorePlayPos>>
    \o Guarded("state") \o Guarded("samples")

\* A control thread whose load keeps the state guard of line 278 alive while
\* it takes the samples mutex of line 280.
ControlScriptNested(op) ==
    CASE op \in {"play", "pause", "get_state"} -> Guarded("state")
      [] op = "stop" -> StopScript
      [] op = "toggle" ->
            Guarded("state")
            \o (IF tgState = "Playing" THEN StopScript ELSE Guarded("state"))
      [] op = "set_loop" -> Guarded("loop")
      [] op \in {"seek", "seek_pct"} -> Guarded("samples") \o <<StorePlayPos>>
      [] op = "get_duration" -> Guarded("samples")
      [] op = "load" ->
            StopScript \o Guarded("samples") \o <<StorePlayPos>>
            \o <<Acq("state"), Acq("samples"), Rel("samples"), Rel("state")>>

\* The shared accesses of each control call, in program order.
ControlScript(op) ==
    CASE op \in {"play", "pause", "get_state"} -> Guarded("state")
      [] op = "stop" -> StopScript
         \* match self.get_state() { Playing => self.stop(), _ => self.play() }
      [] op = "toggle" ->
            Guarded("state")
            \o (IF tgState = "Playing" THEN StopScript ELSE Guarded("state"))
      [] op = "set_loop" -> Guarded("loop")
      [] op \in {"seek", "seek_pct"} -> Guarded("samples") \o <<StorePlayPos>>
      [] op = "get_duration" -> Guarded("samples")
      [] op = "load" -> LoadScript

\* audio_callback: samples_guard (158, kept to the return), the state (159)
\* and the loop flag (160) through temporaries, the position load (169), the
\* state write of line 184, the position store (190), and the drop of
\* samples_guard at the return.
CallbackScript ==
    <<Acq("samples")>> \o Guarded("state") \o Guarded("loop")
    \o <<LoadPlayPos>> \o Guarded("state")
    \o <<StorePlayPos, Rel("samples")>>

\* Whether a thread that is about to perform event i of the script holds l.
HeldBefore(script, i, l) ==
    Cardinality({j \in 1..(i - 1) : script[j] = Acq(l)})
        > Cardinality({j \in 1..(i - 1) : script[j] = Rel(l)})

CtlHolds(l) ==
    ctlPc \in EventLabels /\ HeldBefore(ControlScript(ctlOp), Index(ctlPc), l)

CbHolds(l) ==
    cbPc \in EventLabels /\ HeldBefore(CallbackScript, Index(cbPc), l)

CtlEvent == ControlScript(ctlOp)[Index(ctlPc)]

CbEvent == CallbackScript[Index(cbPc)]

\* std::sync::Mutex is not reentrant: lock() waits while anybody, the caller
\* included, holds the mutex.
CtlBlocked ==
    /\ ctlPc \in EventLabels
    /\ CtlEvent[1] = "acq"
    /\ (CbHolds(CtlEvent[2]) \/ CtlHolds(CtlEvent[2]))

CbBlocked ==
    /\ cbPc \in EventLabels
    /\ CbEvent[1] = "acq"
    /\ (CtlHolds(CbEvent[2]) \/ CbHolds(CbEvent[2]))

SamplesLockAfter(ev, who) ==
    IF ev = Acq("samples") THEN who
    ELSE IF ev = Rel("samples") THEN "free"
    ELSE samplesLock

\* The fields and locals the control thread writes, as they are, and
\* whether the call returns after the event (it does after its last one).
CtlFields ==
    [samples |-> samples, samples_count |-> samples_count,
     peak_samples |-> peak_samples, play_pos |-> play_pos, state |-> state,
     loop_enabled |-> loop_enabled, tgState |-> tgState, skTotal |-> skTotal,
     ldNew |-> ldNew, ldResult |-> ldResult,
     ret |-> Index(ctlPc) = Len(ControlScript(ctlOp))]

\* load between the return of stop() and line 276: the decode loop, its
\* error returns, and self.samples_count = new_samples.len().
DecodeEffect ==
    LET r == DecodeLoop(Files[ldPath].packets, <<>>, out_channels)
    IN  IF r.err # "none"
        THEN [CtlFields EXCEPT !.play_pos = 0, !.ldResult = r.err,
                               !.ret = TRUE]
        ELSE [CtlFields EXCEPT !.play_pos = 0, !.ldNew = r.out,
                               !.samples_count = Len(r.out)]

\* What event i of the call op, and the code after it up to the next event,
\* writes (enabled is the argument of set_loop).
ControlEffect(op, i, enabled) ==
    CASE op = "play" /\ i = 1 -> [CtlFields EXCEPT !.state = "Playing"]
      [] op = "pause" /\ i = 1 -> [CtlFields EXCEPT !.state = "Paused"]
      [] op = "stop" /\ i = 1 -> [CtlFields EXCEPT !.state = "Stopped"]
      [] op = "stop" /\ i = 3 -> [CtlFields EXCEPT !.play_pos = 0]
      [] op = "toggle" /\ i = 1 -> [CtlFields EXCEPT !.tgState = state]
      [] op = "toggle" /\ i = 3 ->
            [CtlFields EXCEPT !.state = IF tgState = "Playing"
                                        THEN "Stopped" ELSE "Playing"]
      [] op = "toggle" /\ i = 5 -> [CtlFields EXCEPT !.play_pos = 0]
      [] op = "set_loop" /\ i = 1 ->
            [CtlFields EXCEPT !.loop_enabled = enabled]
      [] op \in {"seek", "seek_pct"} /\ i = 1 ->
            [CtlFields EXCEPT !.skTotal = Len(samples)]
      [] op \in {"seek", "seek_pct"} /\ i = 3 ->
            [CtlFields EXCEPT !.play_pos = Min2(skPos, skTotal)]
      [] op = "load" /\ i = 1 -> [CtlFields EXCEPT !.state = "Stopped"]
      [] op = "load" /\ i = 3 -> DecodeEffect
      [] op = "load" /\ i = 4 ->
            [CtlFields EXCEPT !.samples = ldNew, !.ldNew = <<>>]
      [] op = "load" /\ i = 6 -> [CtlFields EXCEPT !.play_pos = 0]
      [] op = "load" /\ i = 7 -> [CtlFields EXCEPT !.state = "Stopped"]
      [] op = "load" /\ i = 9 ->
            [CtlFields EXCEPT !.peak_samples = compute_peaks(samples)]
      [] op = "load" /\ i = 10 -> [CtlFields EXCEPT !.ldResult = "Ok"]
      [] OTHER -> CtlFields

\* A call of the control thread: the locals of the previous call are dead,
\* the arguments are taken, and load opens its file.
LkCall ==
    /\ ctlPc = "idle"
    /\ \E op \in LockOps :
         /\ ctlOp' = op
         /\ CASE op = "seek" -> \E sample_pos \in LockSeeks : skPos' = sample_pos
              [] op = "seek_pct" ->
                    \E pct \in Percents :
                        skPos' = PercentToIndex(samples_count, pct)
              [] OTHER -> skPos' = 0
         /\ IF op = "load"
            THEN \E path \in LockPaths :
                   /\ ldPath' = path
                   /\ ldResult' = OpenError(Files[path])
                   /\ ctlPc' = IF OpenError(Files[path]) # "none"
                               THEN "idle" ELSE EventLabel[1]
            ELSE /\ ldPath' = "none"
                 /\ ldResult' = "none"
                 /\ ctlPc' = EventLabel[1]
    /\ tgState' = "Stopped"
    /\ skTotal' = 0
    /\ ldNew' = <<>>
    /\ UNCHANGED <<shared, cbVars>>

\* The next shared access of the running control call.
LkControlEvent ==
    /\ ctlPc \in EventLabels
    /\ ~CtlBlocked
    /\ samplesLock' = SamplesLockAfter(CtlEvent, "ctl")
    /\ \E enabled \in BOOLEAN :
         LET r == ControlEffect(ctlOp, Index(ctlPc), enabled)
         IN  /\ samples' = r.samples
             /\ samples_count' = r.samples_count
             /\ peak_samples' = r.peak_samples
             /\ play_pos' = r.play_pos
             /\ state' = r.state
             /\ loop_enabled' = r.loop_enabled
             /\ tgState' = r.tgState
             /\ skTotal' = r.skTotal
             /\ ldNew' = r.ldNew
             /\ ldResult' = r.ldResult
             /\ ctlPc' = IF r.ret THEN "idle"
                         ELSE EventLabel[Index(ctlPc) + 1]
    /\ UNCHANGED <<out_channels, ctlOp, skPos, ldPath, cbVars>>

\* The host invokes the callback with an output slice of frames *
\* out_channels elements.
LkInvoke ==
    /\ cbPc = "idle"
    /\ \E frames \in 1..MaxOutFrames : cbFrames' = frames
    /\ cbPc' = EventLabel[1]
    /\ UNCHANGED <<shared, ctlVars, cbIdx, cbState, cbLoop, cbPos, data>>

\* out with the frame idx replaced by samples[from .. from + out_channels).
FrameCopy(out, idx, from) ==
    [i \in 1..Len(out) |->
        IF i > idx * out_channels /\ i <= (idx + 1) * out_channels
        THEN samples[from + (i - idx * out_channels)]
        ELSE out[i]]

\* The loop of audio_callback over the frames of data (lines 171-187) from
\* the frame idx on: the position and the output it ends with, and whether
\* it ends at line 184.
RECURSIVE RenderFrames(_, _, _)
RenderFrames(pos, idx, out) ==
    IF idx = cbFrames
    THEN [pos |-> pos, idx |-> idx, data |-> out, stop |-> FALSE]
    ELSE IF pos + out_channels <= Len(samples)
    THEN RenderFrames(pos + out_channels, idx + 1, FrameCopy(out, idx, pos))
    ELSE IF cbLoop
    THEN IF out_channels <= Len(samples)
         THEN RenderFrames(out_channels, idx + 1, FrameCopy(out, idx, 0))
         ELSE RenderFrames(0, idx + 1, out)
    ELSE [pos |-> pos, idx |-> idx, data |-> out, stop |-> TRUE]

\* The fields and locals the callback writes, as they are.
CbFields ==
    [play_pos |-> play_pos, state |-> state, cbFrames |-> cbFrames,
     cbIdx |-> cbIdx, cbState |-> cbState, cbLoop |-> cbLoop,
     cbPos |-> cbPos, data |-> data, next |-> Index(cbPc) + 1]

\* What event i of the callback, and its code up to the next event, writes,
\* and the event that follows: after the loop flag the output is cleared and
\* a callback that is not playing returns (163-167); after the position load
\* the frame loop runs to its end or to line 184.
CallbackEffect(i) ==
    CASE i = 2 -> [CbFields EXCEPT !.cbState = state]
      [] i = 4 -> [CbFields EXCEPT !.cbLoop = loop_enabled]
      [] i = 5 ->
            [CbFields EXCEPT
                !.data = Repeat(F32Zero, cbFrames * out_channels),
                !.next = IF cbState # "Playing" \/ samples = <<>>
                         THEN Len(CallbackScript) ELSE i + 1]
      [] i = 6 ->
            LET r == RenderFrames(play_pos, 0, data)
            IN  [CbFields EXCEPT !.cbPos = r.pos, !.cbIdx = r.idx,
                                 !.data = r.data,
                                 !.next = IF r.stop THEN i + 1 ELSE i + 3]
      [] i = 7 -> [CbFields EXCEPT !.state = "Stopped"]
      [] i = 9 -> [CbFields EXCEPT !.play_pos = cbPos]
      [] i = Len(CallbackScript) ->
            [CbFields EXCEPT !.cbFrames = 0, !.cbIdx = 0,
                             !.cbState = "Stopped", !.cbLoop = FALSE,
                             !.cbPos = 0, !.data = <<>>]
      [] OTHER -> CbFields

\* The next shared access of the running callback.
LkCallbackEvent ==
    /\ cbPc \in EventLabels
    /\ ~CbBlocked
    /\ samplesLock' = SamplesLockAfter(CbEvent, "cb")
    /\ LET r == CallbackEffect(Index(cbPc))
       IN  /\ play_pos' = r.play_pos
           /\ state' = r.state
           /\ cbFrames' = r.cbFrames
           /\ cbIdx' = r.cbIdx
           /\ cbState' = r.cbState
           /\ cbLoop' = r.cbLoop
           /\ cbPos' = r.cbPos
           /\ data' = r.data
           /\ cbPc' = IF Index(cbPc) = Len(CallbackScript)
                      THEN "idle" ELSE EventLabel[r.next]
    /\ UNCHANGED <<out_channels, samples, samples_count, peak_samples,
                   loop_enabled, ctlVars>>

LockNext == LkCall \/ LkControlEvent \/ LkInvoke \/ LkCallbackEvent

LockSpec == Init /\ [][LockNext]_vars

\* C28: no interleaving of the render callback with the control calls
\* deadlocks: the two threads are never both waiting for a mutex (nor is one
\* waiting for a mutex it holds itself); the callback holds the samples mutex
\* whenever it takes the state or the loop mutex; and the control thread holds
\* neither the state nor the loop mutex when it is about to take the samples
\* mutex.
C28_NoDeadlock ==
    /\ ~(CtlBlocked /\ CbBlocked)
    /\ ~(CtlBlocked /\ CtlHolds(CtlEvent[2]))
    /\ ~(CbBlocked /\ CbHolds(CbEvent[2]))
    /\ (cbPc \in EventLabels /\ CbEvent \in {Acq("state"), Acq("loop")})
           => (CbHolds("samples") /\ samplesLock = "cb")
    /\ (ctlPc \in EventLabels /\ CtlEvent = Acq("samples"))
           => (~CtlHolds("state") /\ ~CtlHolds("loop"))

\* load waits at line 276 for the samples mutex while the callback, holding
\* it, has run off the end of the old buffer and is about to take the state
\* mutex for line 184.
C28_Witness ==
    /\ ctlOp = "load"
    /\ CtlBlocked
    /\ CtlEvent = Acq("samples")
    /\ samplesLock = "cb"
    /\ CbEvent = Acq("state")
    /\ CbHolds("samples")
    /\ cbIdx >= 1
    /\ state = "Stopped"
    /\ ~CbBlocked

\* A step of the callback that copies one frame out of the sample buffer
\* (line 173, or line 179 after the restart at 0, where pos is 0).
CopiesFrame ==
    /\ CallbackStep
    /\ cbPc \in {"frame", "wrap_copy"}
    /\ cbPos' = cbPos + out_channels

\* C29: the render callback never indexes the sample buffer out of range and
\* never panics: every frame it copies is the slice [pos, pos + channels) of
\* the buffer with pos + channels <= buffer length, and it lands in a whole
\* frame of the output (whose length is a multiple of the channel count, the
\* chunk size being at least 1), for every position, frame-aligned or not,
\* every buffer and either loop setting.
C29_CopiedSliceInRange ==
    [][CopiesFrame =>
         /\ out_channels >= 1
         /\ Len(data) = cbFrames * out_channels
         /\ cbIdx < cbFrames
         /\ cbPos >= 0
         /\ cbPos + out_channels <= Len(samples)
         /\ \A c \in 1..out_channels :
               /\ cbPos + c \in DOMAIN samples
               /\ cbIdx * out_channels + c \in DOMAIN data'
               /\ data'[cbIdx * out_channels + c] = samples[cbPos + c]]_vars

\* A stereo callback that started at an odd position has copied one frame and
\* now finds a single sample left in the buffer.
C29_Witness ==
    /\ cbPc = "frame"
    /\ out_channels = 2
    /\ cbIdx = 1
    /\ cbIdx < cbFrames
    /\ cbPos % 2 = 1
    /\ cbPos + 1 = Len(samples)
    /\ cbState = "Playing"
    /\ data[2] = samples[cbPos]

====
